---- MODULE Spec2Model ----
(***************************************************************************)
(* cli-timer: the timer state machine (src/app.rs), its key handler        *)
(* (src/handler.rs), the main loop that dispatches tick and key events     *)
(* (src/main.rs) and the background sound threads spawned by start_sound.  *)
(* All times are in milliseconds.                                          *)
(***************************************************************************)
EXTENDS Integers, Sequences, FiniteSets, TLC

VARIABLES
    running,          \* App.running
    state,            \* App.state
    pre_pause_state,  \* App.pre_pause_state ("None" or a State)
    duration,         \* App.duration
    time_left,        \* App.time_left
    end_time,         \* App.end_time
    sender,           \* App.sender: 0 is None, i > 0 is Some(tx) of threads[i]
    threads,          \* the sound threads spawned so far, in spawn order
    now,              \* Local::now()
    next_tick,        \* the time at which the event handler emits its next Tick
    event,            \* history: the event dispatched by the last step, if any
    did_restart,      \* history: the last step ran App::restart
    sound_result,     \* history: the outcome of start_sound in the last step
    starts,           \* history: number of start_sound calls so far
    pause_left,       \* history: time_left at the moment of the last pause
    resumed,          \* history: resumed from Paused and no tick dispatched since
    fresh,            \* history: restart has run and no tick dispatched since
    restart_at,       \* history: time of the last restart, -1 after a later key
    main_pc,          \* where main is: "start", "loop", "exited" or "failed"
    tui_exited,       \* main has called tui.exit()
    arg,              \* the value given to -t, a sequence of characters
    frame             \* the time string drawn last by tui.draw

app_vars == <<running, state, pre_pause_state, duration, time_left, end_time, sender>>
vars == <<running, state, pre_pause_state, duration, time_left, end_time, sender,
          threads, now, next_tick, event, did_restart, sound_result, starts,
          pause_left, resumed, fresh, restart_at, main_pc, tui_exited, arg, frame>>

----------------------------------------------------------------------------
(* Bounds of the model *)

\* the clock stops at this many milliseconds
MaxTime == 2500
\* the largest configured duration, in seconds
MaxSeconds == 1
\* the configured duration goes down to -NegSeconds seconds
NegSeconds == 1
\* at most this many calls of start_sound
MaxStarts == 2
\* render is tried on times of up to this many hours (and on 100 hours)
MaxRenderHours == 1
\* the value of -t has at most this many characters
MaxArgLen == 5

----------------------------------------------------------------------------
(* Program constants *)

\* main.rs: Handler::new(250), the tick period in milliseconds
TickRate == 250
OneTickPeriod == TickRate

\* app.rs restart: Duration::seconds(1), in milliseconds
RestartLeadIn == 1000

\* enum State
State == {"Running", "Paused", "Triggered", "Restart"}

\* the key codes the handler distinguishes; "x" stands for any other key
KeyCodes == {"Esc", "q", "c", "C", " ", "r", "R", "x"}

\* a key event: its code and whether its modifiers are exactly CONTROL, which
\* the handler looks at for 'c' and 'C' only
KeyEvents ==
    [type : {"Key"}, code : KeyCodes, ctrl : {FALSE}]
        \cup [type : {"Key"}, code : {"c", "C"}, ctrl : {TRUE}]

\* the values of -t that parse: whole seconds, possibly zero or negative
Durations == {s * 1000 : s \in (0 - NegSeconds)..MaxSeconds}

\* a key, mouse or resize event arrives this long after the previous event
EventDelays == {0, TickRate \div 2}

----------------------------------------------------------------------------
(* The sound threads: thread::spawn in start_sound *)

\* a thread just spawned: nothing sent on its channel, its Sender alive
NewThread == [pc |-> "init", stop |-> FALSE, tx |-> TRUE]

\* tx.send(()) on the channel of thread i; the send fails, and is ignored,
\* when the receiver is gone
SendStop(ths, i) ==
    IF ths[i].pc = "exited" THEN ths ELSE [ths EXCEPT ![i].stop = TRUE]

\* the Sender of thread i is dropped (i = 0: there was none)
DropSender(ths, i) ==
    IF i = 0 THEN ths ELSE [ths EXCEPT ![i].tx = FALSE]

\* a thread is live from its spawn until its closure returns
Live(i) == threads[i].pc # "exited"

\* a step of a sound thread touches nothing of App; the history records that
\* the last step was a thread's
ThreadStep ==
    /\ event' = [type |-> "Thread"]
    /\ did_restart' = FALSE
    /\ sound_result' = "none"
    /\ UNCHANGED <<running, state, pre_pause_state, duration, time_left, end_time,
                   sender, now, next_tick, starts, pause_left, resumed, fresh,
                   restart_at, main_pc, tui_exited, arg, frame>>

\* the set-up of the closure: output stream, sink and decoder; any of them
\* failing returns from the thread, otherwise the sink plays
PlayerInit(i) ==
    /\ threads[i].pc = "init"
    /\ \E ok \in BOOLEAN :
          threads' = [threads EXCEPT ![i].pc = IF ok THEN "playing" ELSE "exited"]
    /\ ThreadStep

PlayerPoll_keeps_playing(i) ==
    /\ threads[i].pc = "playing"
    /\ threads[i].stop \/ ~threads[i].tx
    /\ threads' = [threads EXCEPT ![i].stop = FALSE]
    /\ ThreadStep

\* one iteration of the polling loop that leaves it: try_recv returns Ok or
\* Disconnected, the sink stops and the thread ends (Empty changes nothing)
PlayerPoll(i) ==
    /\ threads[i].pc = "playing"
    /\ threads[i].stop \/ ~threads[i].tx
    /\ threads' = [threads EXCEPT ![i].pc = "exited", ![i].stop = FALSE]
    /\ ThreadStep

----------------------------------------------------------------------------
(* App::render: the time string *)

Abs(x) == IF x < 0 THEN 0 - x ELSE x

Digits == <<"0", "1", "2", "3", "4", "5", "6", "7", "8", "9">>

\* the decimal digits of n >= 0, as format! writes them
RECURSIVE ToDigits(_)
ToDigits(n) ==
    IF n < 10 THEN <<Digits[n + 1]>>
    ELSE ToDigits(n \div 10) \o <<Digits[(n % 10) + 1]>>

\* {n:0>2}: padded with '0' on the left to a width of two
Pad2(n) == IF n < 10 THEN <<"0">> \o ToDigits(n) ELSE ToDigits(n)

render_sign_of_time_left(st, tl) ==
    LET seconds == (Abs(tl) \div 1000) % 60
        minutes == (Abs(tl) \div 60000) % 60
        hours == Abs(tl) \div 3600000
        time_prefix == IF tl < 0 THEN "-" ELSE " "
    IN  <<time_prefix>> \o Pad2(hours) \o <<":">> \o Pad2(minutes)
            \o <<":">> \o Pad2(seconds)

\* the time_string of render: num_seconds, num_minutes and num_hours
\* truncate towards zero, so their abs() is the quotient of the absolute value
render(st, tl) ==
    LET seconds == (Abs(tl) \div 1000) % 60
        minutes == (Abs(tl) \div 60000) % 60
        hours == Abs(tl) \div 3600000
        time_prefix == IF st = "Triggered" THEN "-" ELSE " "
    IN  <<time_prefix>> \o Pad2(hours) \o <<":">> \o Pad2(minutes)
            \o <<":">> \o Pad2(seconds)

----------------------------------------------------------------------------
(* parse_duration *)

\* the number a sequence of decimal digits writes
DigitValue(c) == CHOOSE d \in 0..9 : Digits[d + 1] = c

RECURSIVE DecimalValue(_)
DecimalValue(ds) ==
    IF ds = << >> THEN 0
    ELSE 10 * DecimalValue(SubSeq(ds, 1, Len(ds) - 1)) + DigitValue(ds[Len(ds)])

IsDigits(ds) == \A k \in 1..Len(ds) : \E d \in 0..9 : Digits[d + 1] = ds[k]

\* the characters the value of -t is made of; "x" stands for any character
\* that is neither a digit, a sign nor a colon
ArgChars == {"1", "2", "3", "-", "+", ":", "x"}

ArgStrings == UNION {[1..n -> ArgChars] : n \in 0..MaxArgLen}

\* arg.split(":"): the fields between the colons, empty ones included
RECURSIVE split(_)
split(a) ==
    IF \A k \in 1..Len(a) : a[k] # ":" THEN <<a>>
    ELSE LET k == CHOOSE k \in 1..Len(a) :
                      a[k] = ":" /\ \A j \in 1..(k - 1) : a[j] # ":"
         IN  <<SubSeq(a, 1, k - 1)>> \o split(SubSeq(a, k + 1, Len(a)))

\* num_string.parse::<i64>(): an optional sign and at least one digit
parse_i64(f) ==
    LET signed == f # << >> /\ f[1] \in {"+", "-"}
        body == IF signed THEN Tail(f) ELSE f
    IN  IF body = << >> \/ ~IsDigits(body) THEN [ok |-> FALSE, val |-> 0]
        ELSE [ok |-> TRUE,
              val |-> IF signed /\ f[1] = "-" THEN 0 - DecimalValue(body)
                      ELSE DecimalValue(body)]

\* the loop of parse_duration: ? returns the first error
RECURSIVE add_fields_positional(_, _)
add_fields_positional(fields, time_in_seconds) ==
    IF fields = << >> THEN [ok |-> TRUE, val |-> time_in_seconds]
    ELSE LET r == parse_i64(Head(fields))
         IN  IF ~r.ok THEN [ok |-> FALSE, val |-> 0]
             ELSE add_fields_positional(Tail(fields), 60 * time_in_seconds + r.val)

RECURSIVE add_fields(_, _)
add_fields(fields, time_in_seconds) ==
    IF fields = << >> THEN [ok |-> TRUE, val |-> time_in_seconds]
    ELSE LET r == parse_i64(Head(fields))
         IN  IF ~r.ok THEN [ok |-> FALSE, val |-> 0]
             ELSE add_fields(Tail(fields), time_in_seconds + r.val)

parse_duration_positional(a) == add_fields_positional(split(a), 0)

\* parse_duration: Ok(Duration::seconds(val)) or the ParseIntError
parse_duration(a) == add_fields(split(a), 0)

----------------------------------------------------------------------------
(* App *)

\* App::new followed by Handler::new(250): the clock starts at 0
Init ==
    /\ running = TRUE
    /\ state = "Running"
    /\ pre_pause_state = "None"
    /\ duration \in Durations
    /\ time_left = duration
    /\ now = 0
    /\ end_time = now + duration
    /\ sender = 0
    /\ threads = << >>
    /\ next_tick = TickRate
    /\ event = [type |-> "Init"]
    /\ did_restart = FALSE
    /\ sound_result = "none"
    /\ starts = 0
    /\ pause_left = "None"
    /\ resumed = FALSE
    /\ fresh = FALSE
    /\ restart_at = 0 - 1
    /\ main_pc = "loop"
    /\ tui_exited = FALSE
    /\ arg = << >>
    /\ frame = render(state, time_left)

\* App::start_sound: File::open fails (ok = FALSE) and nothing else happens,
\* or the channel is made, its Sender stored and the thread spawned
start_sound(ok) ==
    /\ starts < MaxStarts
    /\ starts' = starts + 1
    /\ IF ok
       THEN /\ sender' = Len(threads) + 1
            /\ threads' = Append(DropSender(threads, sender), NewThread)
            /\ sound_result' = "ok"
       ELSE /\ UNCHANGED <<sender, threads>>
            /\ sound_result' = "err"

\* tick, the arm State::Paused
tick_paused_keeps_end_time ==
    /\ sound_result' = "none"
    /\ UNCHANGED <<end_time, time_left, state, sender, threads, starts>>

tick_paused ==
    /\ end_time' = now' + time_left
    /\ sound_result' = "none"
    /\ UNCHANGED <<time_left, state, sender, threads, starts>>

\* tick, the arm State::Running | State::Restart
tick_running_frozen_in_restart ==
    IF state = "Restart"
    THEN /\ sound_result' = "none"
         /\ UNCHANGED <<time_left, end_time, state, sender, threads, starts>>
    ELSE /\ time_left' = end_time - now'
         /\ IF time_left' <= 0
            THEN /\ \E ok \in BOOLEAN : start_sound(ok)
                 /\ state' = "Triggered"
            ELSE /\ sound_result' = "none"
                 /\ UNCHANGED <<state, sender, threads, starts>>
         /\ UNCHANGED end_time

tick_running_returns_on_error ==
    /\ time_left' = end_time - now'
    /\ IF time_left' <= 0
       THEN \E ok \in BOOLEAN :
               /\ start_sound(ok)
               /\ state' = IF ok THEN "Triggered" ELSE state
       ELSE /\ sound_result' = "none"
            /\ UNCHANGED <<state, sender, threads, starts>>
    /\ UNCHANGED end_time

tick_running_triggers_below_zero ==
    /\ time_left' = end_time - now'
    /\ IF time_left' < 0
       THEN /\ \E ok \in BOOLEAN : start_sound(ok)
            /\ state' = "Triggered"
       ELSE /\ sound_result' = "none"
            /\ UNCHANGED <<state, sender, threads, starts>>
    /\ UNCHANGED end_time

tick_running ==
    /\ time_left' = end_time - now'
    /\ IF time_left' <= 0
       THEN /\ \E ok \in BOOLEAN : start_sound(ok)
            /\ state' = "Triggered"
       ELSE /\ sound_result' = "none"
            /\ UNCHANGED <<state, sender, threads, starts>>
    /\ UNCHANGED end_time

\* tick, the arm State::Triggered
tick_triggered_starts_again ==
    /\ time_left' = end_time - now'
    /\ \E ok \in BOOLEAN : start_sound(ok)
    /\ UNCHANGED <<end_time, state>>

tick_triggered ==
    /\ time_left' = end_time - now'
    /\ sound_result' = "none"
    /\ UNCHANGED <<end_time, state, sender, threads, starts>>

\* App::tick, with Local::now() read as now'
tick ==
    /\ CASE state = "Paused" -> tick_paused
         [] state \in {"Running", "Restart"} -> tick_running
         [] state = "Triggered" -> tick_triggered
    /\ did_restart' = FALSE
    /\ UNCHANGED <<running, pre_pause_state, duration>>

restart_keeps_sender ==
    /\ state' = "Running"
    /\ pre_pause_state' = "None"
    /\ time_left' = duration
    /\ end_time' = now' + duration + RestartLeadIn
    /\ did_restart' = TRUE
    /\ UNCHANGED <<running, duration, sender, threads>>

restart_without_lead_in ==
    /\ state' = "Running"
    /\ pre_pause_state' = "None"
    /\ time_left' = duration
    /\ end_time' = now' + duration
    /\ threads' = IF sender # 0
                  THEN DropSender(SendStop(threads, sender), sender)
                  ELSE threads
    /\ sender' = 0
    /\ did_restart' = TRUE
    /\ UNCHANGED <<running, duration>>

restart_keeps_handle ==
    /\ state' = "Running"
    /\ pre_pause_state' = "None"
    /\ time_left' = duration
    /\ end_time' = now' + duration + RestartLeadIn
    /\ threads' = IF sender # 0 THEN SendStop(threads, sender) ELSE threads
    /\ did_restart' = TRUE
    /\ UNCHANGED <<running, duration, sender>>

\* App::restart, with Local::now() read as now'
restart ==
    /\ state' = "Running"
    /\ pre_pause_state' = "None"
    /\ time_left' = duration
    /\ end_time' = now' + duration + RestartLeadIn
    /\ threads' = IF sender # 0
                  THEN DropSender(SendStop(threads, sender), sender)
                  ELSE threads
    /\ sender' = 0
    /\ did_restart' = TRUE
    /\ UNCHANGED <<running, duration>>

----------------------------------------------------------------------------
(* handle_key_events *)

\* what every arm but restart leaves alone
NoRestart ==
    /\ did_restart' = FALSE
    /\ UNCHANGED <<duration, time_left, end_time, sender, threads>>

key_esc_always_quits ==
    /\ running' = FALSE
    /\ UNCHANGED <<state, pre_pause_state>>
    /\ NoRestart

\* KeyCode::Esc | KeyCode::Char('q')
key_esc ==
    /\ IF state = "Restart"
       THEN state' = "Running" /\ UNCHANGED running
       ELSE running' = FALSE /\ UNCHANGED state
    /\ UNCHANGED pre_pause_state
    /\ NoRestart

key_c_ignores_modifiers(ctrl) ==
    /\ running' = FALSE
    /\ UNCHANGED <<state, pre_pause_state>>
    /\ NoRestart

\* KeyCode::Char('c' | 'C')
key_c(ctrl) ==
    /\ running' = IF ctrl THEN FALSE ELSE running
    /\ UNCHANGED <<state, pre_pause_state>>
    /\ NoRestart

key_space_keeps_pre_pause_state ==
    CASE state = "Running" ->
           /\ pre_pause_state' = state
           /\ state' = "Paused"
           /\ UNCHANGED running
           /\ NoRestart
      [] state = "Paused" ->
           /\ state' = IF pre_pause_state = "None" THEN "Running" ELSE pre_pause_state
           /\ UNCHANGED <<running, pre_pause_state>>
           /\ NoRestart
      [] state = "Triggered" -> restart
      [] state = "Restart" ->
           /\ UNCHANGED <<running, state, pre_pause_state>>
           /\ NoRestart

key_space_pauses_in_restart ==
    CASE state \in {"Running", "Restart"} ->
           /\ pre_pause_state' = state
           /\ state' = "Paused"
           /\ UNCHANGED running
           /\ NoRestart
      [] state = "Paused" ->
           /\ state' = IF pre_pause_state = "None" THEN "Running" ELSE pre_pause_state
           /\ pre_pause_state' = "None"
           /\ UNCHANGED running
           /\ NoRestart
      [] state = "Triggered" -> restart

\* KeyCode::Char(' ')
key_space ==
    CASE state = "Running" ->
           /\ pre_pause_state' = state
           /\ state' = "Paused"
           /\ UNCHANGED running
           /\ NoRestart
      [] state = "Paused" ->
           /\ state' = IF pre_pause_state = "None" THEN "Running" ELSE pre_pause_state
           /\ pre_pause_state' = "None"
           /\ UNCHANGED running
           /\ NoRestart
      [] state = "Triggered" -> restart
      [] state = "Restart" ->
           /\ UNCHANGED <<running, state, pre_pause_state>>
           /\ NoRestart

key_r_without_confirmation ==
    CASE state \in {"Running", "Restart", "Triggered"} -> restart
      [] state = "Paused" ->
           /\ UNCHANGED <<running, state, pre_pause_state>>
           /\ NoRestart

\* KeyCode::Char('r' | 'R')
key_r ==
    CASE state = "Running" ->
           /\ state' = "Restart"
           /\ UNCHANGED <<running, pre_pause_state>>
           /\ NoRestart
      [] state \in {"Restart", "Triggered"} -> restart
      [] state = "Paused" ->
           /\ UNCHANGED <<running, state, pre_pause_state>>
           /\ NoRestart

\* the arm _ => {}
key_other ==
    /\ UNCHANGED <<running, state, pre_pause_state>>
    /\ NoRestart

handle_key_events(key_event) ==
    /\ CASE key_event.code \in {"Esc", "q"} -> key_esc
         [] key_event.code \in {"c", "C"} -> key_c(key_event.ctrl)
         [] key_event.code = " " -> key_space
         [] key_event.code \in {"r", "R"} -> key_r
         [] OTHER -> key_other
    /\ sound_result' = "none"
    /\ UNCHANGED starts

----------------------------------------------------------------------------
(* main: the loop while app.running *)

\* history of pausing: the time_left held when Paused was entered, and
\* whether Running was resumed with no tick dispatched since
PauseHistory ==
    /\ resumed' = IF event'.type = "Tick" THEN FALSE
                  ELSE \/ (state = "Paused" /\ state' = "Running")
                       \/ (resumed /\ state' = "Running" /\ ~did_restart')
    /\ fresh' = IF event'.type = "Tick" THEN FALSE ELSE (fresh \/ did_restart')
    /\ pause_left' = IF state # "Paused" /\ state' = "Paused" THEN time_left
                     ELSE IF state' = "Paused" \/ resumed' THEN pause_left
                     ELSE "None"

\* one iteration of while app.running: the event is dispatched, and when
\* running is still true the next iteration draws the frame; main stays in
\* the loop. The history keeps the time of a restart until the next key
Iteration ==
    /\ main_pc = "loop"
    /\ running
    /\ frame' = IF running' THEN render(state', time_left') ELSE frame
    /\ restart_at' = IF did_restart' THEN now'
                     ELSE IF event'.type = "Key" THEN 0 - 1
                     ELSE restart_at
    /\ UNCHANGED <<main_pc, tui_exited, arg>>

\* the event handler's ticker: the next Tick arrives one tick period after the
\* previous one, and the clock has then advanced to that time
TickArrives ==
    /\ next_tick <= MaxTime
    /\ now' = next_tick
    /\ next_tick' = next_tick + TickRate

\* a key, mouse or resize event arrives dt after the previous event and
\* before the next Tick is due
InputArrives(dt) ==
    /\ now + dt < next_tick
    /\ now' = now + dt
    /\ UNCHANGED next_tick

\* Event::Tick => app.tick()
Tick ==
    /\ running
    /\ TickArrives
    /\ event' = [type |-> "Tick"]
    /\ tick
    /\ PauseHistory
    /\ Iteration

\* Event::Key(key_event) => handle_key_events(key_event, &mut app)
Key ==
    /\ running
    /\ \E dt \in EventDelays, key_event \in KeyEvents :
          /\ InputArrives(dt)
          /\ event' = key_event
          /\ handle_key_events(key_event)
    /\ PauseHistory
    /\ Iteration

\* Event::Mouse(_) | Event::Resize(_, _) => {}
MouseOrResize ==
    /\ running
    /\ \E dt \in EventDelays, type \in {"Mouse", "Resize"} :
          /\ InputArrives(dt)
          /\ event' = [type |-> type]
    /\ UNCHANGED <<running, state, pre_pause_state, duration, time_left, end_time,
                   sender, threads, starts>>
    /\ did_restart' = FALSE
    /\ sound_result' = "none"
    /\ PauseHistory
    /\ Iteration

\* a step of one of the sound threads
Player == \E i \in 1..Len(threads) : PlayerInit(i) \/ PlayerPoll(i)

Next == Tick \/ Key \/ MouseOrResize \/ Player

Spec == Init /\ [][Next]_vars

\* no input: only ticks, at the handler's cadence, and the sound threads
NextTicks == Tick \/ \E i \in 1..Len(threads) : PlayerInit(i)

SpecTicks == Init /\ [][NextTicks]_vars /\ WF_vars(Tick)

\* the operating system schedules every sound thread: a thread that can take
\* a step eventually takes it
PlayerFairness ==
    \A i \in 1..MaxStarts :
        /\ WF_vars(i <= Len(threads) /\ PlayerInit(i))
        /\ WF_vars(i <= Len(threads) /\ PlayerPoll(i))

SpecFair == Init /\ [][Next]_vars /\ PlayerFairness

\* tui.draw(&mut app)? or tui.events.next()? returns an error: the ? operator
\* returns it from main at once
EventSourceFails ==
    /\ main_pc = "loop"
    /\ running
    /\ main_pc' = "failed"
    /\ event' = [type |-> "Error"]
    /\ did_restart' = FALSE
    /\ sound_result' = "none"
    /\ UNCHANGED <<running, state, pre_pause_state, duration, time_left, end_time,
                   sender, threads, now, next_tick, starts, pause_left, resumed,
                   fresh, restart_at, tui_exited, arg, frame>>

\* the loop has ended: tui.exit()?, which may fail, then Ok(())
MainExits ==
    /\ main_pc = "loop"
    /\ ~running
    /\ tui_exited' = TRUE
    /\ main_pc' \in {"exited", "failed"}
    /\ event' = [type |-> "Exit"]
    /\ did_restart' = FALSE
    /\ sound_result' = "none"
    /\ UNCHANGED <<running, state, pre_pause_state, duration, time_left, end_time,
                   sender, threads, now, next_tick, starts, pause_left, resumed,
                   fresh, restart_at, arg, frame>>

\* main from the first iteration of the loop to its return
NextMain == Next \/ EventSourceFails \/ MainExits

SpecMain == Init /\ [][NextMain]_vars

\* the times render is tried on: whole seconds of either sign, in milliseconds
RenderTimes ==
    {sign * (h * 3600 + m * 60 + sec) * 1000 :
        sign \in {0 - 1, 1}, h \in (0..MaxRenderHours) \cup {100},
        m \in {0, 1, 59}, sec \in {0, 5, 59}}

\* an App in any state and with any of these time_left, not yet drawn
InitRender ==
    /\ state \in State
    /\ time_left \in RenderTimes
    /\ frame = << >>
    /\ main_pc = "render"
    /\ running = TRUE
    /\ pre_pause_state = IF state = "Paused" THEN "Running" ELSE "None"
    /\ duration = 0
    /\ now = 0
    /\ end_time = now + time_left
    /\ sender = 0
    /\ threads = << >>
    /\ next_tick = TickRate
    /\ event = [type |-> "Init"]
    /\ did_restart = FALSE
    /\ sound_result = "none"
    /\ starts = 0
    /\ pause_left = "None"
    /\ resumed = FALSE
    /\ fresh = FALSE
    /\ restart_at = 0 - 1
    /\ tui_exited = FALSE
    /\ arg = << >>

\* tui.draw(&mut app): app.render writes the time string
Draw ==
    /\ main_pc = "render"
    /\ frame = << >>
    /\ frame' = render(state, time_left)
    /\ UNCHANGED <<running, state, pre_pause_state, duration, time_left, end_time,
                   sender, threads, now, next_tick, event, did_restart,
                   sound_result, starts, pause_left, resumed, fresh, restart_at,
                   main_pc, tui_exited, arg>>

SpecRender == InitRender /\ [][Draw]_vars

\* main before Args::parse(): no App yet, its fields hold placeholders
InitStart ==
    /\ main_pc = "start"
    /\ arg \in ArgStrings
    /\ running = TRUE
    /\ state = "Running"
    /\ pre_pause_state = "None"
    /\ duration = 0
    /\ time_left = 0
    /\ now = 0
    /\ end_time = 0
    /\ sender = 0
    /\ threads = << >>
    /\ next_tick = TickRate
    /\ event = [type |-> "Init"]
    /\ did_restart = FALSE
    /\ sound_result = "none"
    /\ starts = 0
    /\ pause_left = "None"
    /\ resumed = FALSE
    /\ fresh = FALSE
    /\ restart_at = 0 - 1
    /\ tui_exited = FALSE
    /\ frame = << >>

\* Args::parse() with value_parser = parse_duration, then App::new(args) and
\* the first draw; a parse error ends main
ParseArgs ==
    /\ main_pc = "start"
    /\ LET r == parse_duration(arg)
       IN  IF r.ok
           THEN /\ main_pc' = "loop"
                /\ duration' = r.val * 1000
                /\ time_left' = duration'
                /\ end_time' = now + duration'
                /\ frame' = render(state, time_left')
           ELSE /\ main_pc' = "failed"
                /\ UNCHANGED <<duration, time_left, end_time, frame>>
    /\ UNCHANGED <<running, state, pre_pause_state, sender, threads, now,
                   next_tick, event, did_restart, sound_result, starts,
                   pause_left, resumed, fresh, restart_at, tui_exited, arg>>

SpecParse == InitStart /\ [][ParseArgs]_vars

TypeOK ==
    /\ running \in BOOLEAN
    /\ state \in State
    /\ pre_pause_state \in State \cup {"None"}
    /\ sender \in 0..Len(threads)

----------------------------------------------------------------------------
(* Properties *)

\* the last dispatched event is a key event with one of these codes
KeyIn(ev, codes) == ev.type = "Key" /\ ev.code \in codes

\* the threads that have been spawned and have not returned
LiveThreads == {i \in 1..Len(threads) : Live(i)}

\* C1: in every reachable state pre_pause_state is present if and only if
\* the state is Paused
C1_PrePauseIffPaused == (pre_pause_state # "None") <=> (state = "Paused")

\* C1 witness: the timer has triggered, been restarted and is paused, with the
\* state to restore stored
C1_Witness == state = "Paused" /\ pre_pause_state = "Running" /\ starts > 0

\* C2 as claimed: a tick dispatched while the state is Restart (the spec's
\* ConfirmRestart) changes neither state, time_left, end_time nor sender and
\* starts no sound
C2_TickInRestartIsNoOp ==
    [][(state = "Restart" /\ event'.type = "Tick")
         => /\ UNCHANGED <<state, time_left, end_time, sender>>
            /\ sound_result' = "none"]_vars

\* C2 amended: a tick dispatched while the state is Restart acts as a tick in
\* Running: it recomputes time_left as end_time - now and keeps end_time; when
\* the new time_left is <= 0 it calls start_sound and moves to Triggered,
\* otherwise state and sender stay and no sound is started
C2_TickInRestartCountsDown ==
    [][(state = "Restart" /\ event'.type = "Tick")
         => /\ time_left' = end_time - now'
            /\ end_time' = end_time
            /\ IF time_left' <= 0
               THEN state' = "Triggered" /\ sound_result' # "none"
               ELSE /\ state' = "Restart"
                    /\ sender' = sender
                    /\ sound_result' = "none"]_vars

\* C2 witness: a tick has been dispatched in Restart and has recomputed
\* time_left
C2_Witness ==
    /\ event.type = "Tick"
    /\ state = "Restart"
    /\ time_left = end_time - now
    /\ time_left < duration

\* C3: with duration > 0 and only ticks, the state is Triggered only when at
\* least duration has elapsed, every tick dispatched at or after that moment
\* leaves it Triggered, it does become Triggered, and start_sound has been
\* called exactly once when it is Triggered and never before
C3_ExpiryByTicksAlone ==
    /\ []((duration > 0 /\ state = "Triggered") => (now >= duration /\ starts = 1))
    /\ []((duration > 0 /\ state # "Triggered") => starts = 0)
    /\ []((duration > 0 /\ event.type = "Tick" /\ now >= duration)
            => state = "Triggered")
    /\ ((duration > 0) ~> (state = "Triggered"))

\* C3 witness: a timer with a positive duration has triggered, further ticks
\* have been dispatched in Triggered and start_sound has run once
C3_Witness ==
    /\ duration > 0
    /\ state = "Triggered"
    /\ now >= duration + 2 * TickRate
    /\ starts = 1

\* C4 as claimed: at most one sound thread is live (spawned and not yet
\* returned) at any time
C4_AtMostOneLivePlayer == Cardinality(LiveThreads) <= 1

\* C5: Space, 'r' or 'R' dispatched in Triggered runs restart: the state
\* becomes Running, time_left becomes duration, pre_pause_state and sender
\* become None, and a stop message has been sent to the thread of the stored
\* sender unless that thread had already returned
C5_RestartFromTriggered ==
    [][(state = "Triggered" /\ KeyIn(event', {" ", "r", "R"}))
         => /\ did_restart'
            /\ state' = "Running"
            /\ time_left' = duration
            /\ duration' = duration
            /\ pre_pause_state' = "None"
            /\ sender' = 0
            /\ sender # 0 =>
                 /\ ~threads'[sender].tx
                 /\ threads[sender].pc # "exited" => threads'[sender].stop]_vars

\* C5 witness: restart has just run from Triggered, on a timer that had run
\* down, with a stop message sent to the sound thread
C5_Witness ==
    /\ did_restart
    /\ KeyIn(event, {" "})
    /\ state = "Running"
    /\ time_left = duration
    /\ sender = 0
    /\ Len(threads) = 1
    /\ threads[1].stop

\* C6: 'r' or 'R' dispatched in Running does not run restart: the state
\* becomes Restart and time_left, end_time and duration keep their values;
\* and restart runs from a state other than Triggered only on 'r' or 'R'
\* dispatched while the state is Restart
C6_RestartNeedsConfirmation ==
    [][/\ (state = "Running" /\ KeyIn(event', {"r", "R"}))
            => /\ ~did_restart'
               /\ state' = "Restart"
               /\ UNCHANGED <<time_left, end_time, duration>>
       /\ (did_restart' /\ state # "Triggered")
            => (state = "Restart" /\ KeyIn(event', {"r", "R"}))
       /\ (state = "Restart" /\ KeyIn(event', {"r", "R"}))
            => (did_restart' /\ state' = "Running" /\ time_left' = duration)]_vars

\* C6 witness: restart has run on the confirming 'r' of a timer that never
\* triggered, after time_left had run below duration
C6_Witness ==
    /\ did_restart
    /\ KeyIn(event, {"r", "R"})
    /\ starts = 0
    /\ state = "Running"
    /\ time_left = duration
    /\ end_time = now + duration + 1000
    /\ now >= 2 * TickRate

\* C7 as claimed: Space in Running gives Paused and Space in Paused gives
\* Running, time_left is frozen while Paused, and the first tick dispatched in
\* Running after the resume computes a time_left within one tick period of
\* the time_left held at the moment of pausing
C7_PauseRoundTrip ==
    /\ [](state = "Paused" => time_left = pause_left)
    /\ [][/\ (state = "Running" /\ KeyIn(event', {" "})) => state' = "Paused"
          /\ (state = "Paused" /\ KeyIn(event', {" "})) => state' = "Running"
          /\ (resumed /\ state = "Running" /\ event'.type = "Tick")
               => Abs(time_left' - pause_left) <= TickRate]_vars

\* C7 amended: as claimed when a tick has been dispatched since the last
\* restart; when the pause follows a restart with no tick in between, the
\* first tick in Running after the resume computes a time_left that exceeds
\* the time_left held at the moment of pausing (which is duration) by the
\* restart lead-in of one second less the time since the restart, which is
\* more than one tick period and at most the lead-in
C7_PauseRoundTripAfterTick ==
    /\ [](state = "Paused" => time_left = pause_left)
    /\ [][/\ (state = "Running" /\ KeyIn(event', {" "})) => state' = "Paused"
          /\ (state = "Paused" /\ KeyIn(event', {" "})) => state' = "Running"
          /\ (resumed /\ state = "Running" /\ event'.type = "Tick")
               => IF fresh
                  THEN /\ pause_left = duration
                       /\ time_left' - pause_left > TickRate
                       /\ time_left' - pause_left <= 1000
                  ELSE Abs(time_left' - pause_left) <= TickRate]_vars

\* C7 witness: paused with a tick dispatched since any restart, ticks were
\* dispatched while Paused (end_time was pinned by the last one), Running has
\* been resumed and the next tick is due
C7_Witness ==
    /\ resumed
    /\ ~fresh
    /\ running
    /\ state = "Running"
    /\ time_left = pause_left
    /\ time_left < duration
    /\ end_time = (next_tick - TickRate) + pause_left
    /\ end_time > duration + TickRate
    /\ next_tick <= MaxTime

\* C8 as claimed: restart sets end_time to now + duration + one tick period
\* of the event handler
C8_RestartAddsOneTickPeriod ==
    [][did_restart' => end_time' = now' + duration + TickRate]_vars

\* C8 amended: restart sets end_time to now + duration + one second, which is
\* four of the handler's 250 ms tick periods
C8_RestartAddsOneSecond ==
    [][did_restart' => /\ end_time' = now' + duration + 1000
                       /\ end_time' = now' + duration + 4 * TickRate]_vars

\* C8 witness: restart has just run, on the confirming 'r' or from Triggered
C8_Witness ==
    /\ did_restart
    /\ state = "Running"
    /\ end_time - now - duration = 1000
    /\ now > 0

\* C9: Esc or 'q' dispatched in Restart sets the state to Running and leaves
\* running true, without running restart and without touching the sender or
\* its thread; dispatched in any other state it sets running to false
C9_EscIsPhaseSensitive ==
    [][KeyIn(event', {"Esc", "q"})
         => IF state = "Restart"
            THEN /\ state' = "Running"
                 /\ running' = TRUE
                 /\ ~did_restart'
                 /\ UNCHANGED <<sender, threads, time_left, end_time>>
            ELSE /\ running' = FALSE
                 /\ state' = state]_vars

\* C9 witness: Esc or 'q' has just cancelled a confirmation: the state is
\* Running again and the loop goes on
C9_Witness ==
    /\ KeyIn(event, {"Esc", "q"})
    /\ running
    /\ state = "Running"
    /\ ~did_restart
    /\ now > 0

\* C10: when start_sound fails in a tick, that tick moves the state to
\* Triggered, the sender stays None and running stays true; and no tick
\* dispatched in Triggered calls start_sound
C10_FailedStartIsNotRetried ==
    [][/\ sound_result' = "err"
            => /\ event'.type = "Tick"
               /\ state' = "Triggered"
               /\ sender' = 0
               /\ running' = TRUE
       /\ (state = "Triggered" /\ event'.type = "Tick")
            => /\ sound_result' = "none"
               /\ starts' = starts
               /\ UNCHANGED <<state, sender, threads>>]_vars

\* C10 witness: the start failed, the timer is Triggered without a sender and
\* further ticks have been dispatched with no new start
C10_Witness ==
    /\ state = "Triggered"
    /\ event.type = "Tick"
    /\ sender = 0
    /\ starts = 1
    /\ threads = << >>
    /\ running
    /\ time_left <= 0 - 2 * TickRate
    /\ duration >= 0

\* a thread has been told to stop when a stop message is in its channel or
\* its Sender has been dropped
ToldToStop(i) == threads[i].stop \/ ~threads[i].tx

\* C11: in every reachable state the sender is present if and only if a sound
\* thread has been started and has not been told to stop; that thread is the
\* sender's own, and it is the only such thread
C11_SenderIffPlayerNotStopped ==
    /\ (sender # 0) <=> (\E i \in 1..Len(threads) : ~ToldToStop(i))
    /\ \A i \in 1..Len(threads) : ~ToldToStop(i) => sender = i

\* C11 witness: a first thread has been told to stop by restart and the
\* sender is that of a second thread that has not
C11_Witness ==
    /\ Len(threads) = 2
    /\ sender = 2
    /\ ToldToStop(1)
    /\ ~ToldToStop(2)

\* C12 as claimed: when main has returned with an error, tui.exit() has been
\* called before
C12_FatalErrorAfterRestoration == (main_pc = "failed") => tui_exited

\* C13: the drawn time string is a prefix, then at least two digits of
\* hours, ':', two digits of minutes below 60, ':' and two digits of seconds
\* below 60, which together are the absolute value of time_left; the prefix
\* is "-" if and only if the state is Triggered, and " " otherwise. Triggered
\* with -5 s gives "-00:00:05" and Running with 5 s gives " 00:00:05"
C13_TimeStringShowsAbsoluteValue ==
    frame # << >> =>
        LET n == Len(frame)
            hh == SubSeq(frame, 2, n - 6)
            mm == SubSeq(frame, n - 4, n - 3)
            ss == SubSeq(frame, n - 1, n)
        IN  /\ n >= 9
            /\ frame[n - 5] = ":" /\ frame[n - 2] = ":"
            /\ IsDigits(hh) /\ IsDigits(mm) /\ IsDigits(ss)
            /\ DecimalValue(mm) < 60 /\ DecimalValue(ss) < 60
            /\ (DecimalValue(hh) * 3600 + DecimalValue(mm) * 60 + DecimalValue(ss))
                   * 1000 = Abs(time_left)
            /\ frame[1] = (IF state = "Triggered" THEN "-" ELSE " ")
            /\ (state = "Triggered" /\ time_left = 0 - 5000)
                  => frame = <<"-", "0", "0", ":", "0", "0", ":", "0", "5">>
            /\ (state = "Running" /\ time_left = 5000)
                  => frame = <<" ", "0", "0", ":", "0", "0", ":", "0", "5">>

\* C13 witness: a negative time_left of more than an hour has been drawn in a
\* state other than Triggered, without the "-"
C13_Witness ==
    /\ main_pc = "render"
    /\ state = "Paused"
    /\ time_left = 0 - 3661000 + 2000
    /\ frame = <<" ", "0", "1", ":", "0", "0", ":", "5", "9">>

\* an integer written in decimal, with "-" when negative
FormatInt(n) == (IF n < 0 THEN <<"-">> ELSE << >>) \o ToDigits(Abs(n))

\* integers joined by colons
RECURSIVE JoinFields(_)
JoinFields(fs) ==
    IF Len(fs) = 1 THEN FormatInt(fs[1])
    ELSE FormatInt(fs[1]) \o <<":">> \o JoinFields(Tail(fs))

RECURSIVE SumOf(_)
SumOf(fs) == IF fs = << >> THEN 0 ELSE fs[1] + SumOf(Tail(fs))

\* lists of one to three small integers
IntLists == UNION {[1..k -> (0 - 3)..3] : k \in 1..3}

\* the characters i..j of a are a whole field: colon-free and bounded by
\* colons or the ends of a
IsField(a, i, j) ==
    /\ i = 1 \/ a[i - 1] = ":"
    /\ j = Len(a) \/ a[j + 1] = ":"
    /\ \A k \in i..j : a[k] # ":"

\* an integer literal: digits, at least one, after at most one sign
IsIntLiteral(f) ==
    /\ f # << >>
    /\ \A k \in 2..Len(f) : f[k] \in {"1", "2", "3"}
    /\ f[1] \in {"1", "2", "3"} \/ (f[1] \in {"+", "-"} /\ Len(f) >= 2)

HasBadField(a) ==
    \E i \in 1..(Len(a) + 1), j \in 0..Len(a) :
        /\ j >= i - 1
        /\ IsField(a, i, j)
        /\ ~IsIntLiteral(SubSeq(a, i, j))

Ignored(ev) ==
    \/ ev.type \in {"Mouse", "Resize"}
    \/ KeyIn(ev, {"x"})
    \/ KeyIn(ev, {"c", "C"}) /\ ~ev.ctrl
    \/ KeyIn(ev, {" "}) /\ state = "Restart"
    \/ KeyIn(ev, {"r", "R"}) /\ state = "Paused"

\* C15: dispatching an ignored event leaves state, pre_pause_state,
\* time_left, end_time, sender, running, duration and the sound threads as
\* they were, runs no restart and starts no sound
C15_IgnoredEventsChangeNothing ==
    [][Ignored(event')
         => /\ UNCHANGED <<state, pre_pause_state, time_left, end_time, sender,
                           running, duration, threads, starts>>
            /\ ~did_restart'
            /\ sound_result' = "none"]_vars

\* C15 witness: 'r' has been dispatched in Paused, after a tick had run the
\* time down, and the timer is still paused
C15_Witness ==
    /\ KeyIn(event, {"r", "R"})
    /\ state = "Paused"
    /\ pre_pause_state = "Running"
    /\ running
    /\ time_left < duration
    /\ time_left = pause_left

\* C16: with duration >= 0, the first tick dispatched after a restart does
\* not move the state to Triggered; and as long as no key has been dispatched
\* since the restart, the state becomes Triggered only when at least duration
\* has elapsed since the restart
C16_NoPrematureRetrigger ==
    [][/\ (fresh /\ duration >= 0 /\ event'.type = "Tick")
            => state' # "Triggered"
       /\ (restart_at >= 0 /\ restart_at' >= 0 /\ duration >= 0
             /\ state # "Triggered" /\ state' = "Triggered")
            => now' - restart_at >= duration]_vars

\* C16 witness: the timer was restarted from Triggered and, with no key
\* since, has triggered a second time
C16_Witness ==
    /\ state = "Triggered"
    /\ restart_at >= 0
    /\ duration >= 0
    /\ starts = 2
    /\ event.type = "Tick"
    /\ now - restart_at >= duration + 1000

\* C17: under fair scheduling of the sound threads, a thread that has not
\* exited and has been sent a stop, or whose Sender has been dropped,
\* eventually exits; and a restart whose stored sender belongs to a thread
\* that has already exited does what every restart does: the failed send
\* leaves that thread as it is, only the Sender is dropped, and the App fields
\* get the values restart gives them
C17_StoppedPlayerExits ==
    /\ \A i \in 1..MaxStarts :
          (i <= Len(threads) /\ Live(i) /\ ToldToStop(i))
              ~> (i <= Len(threads) /\ ~Live(i))
    /\ [][(did_restart' /\ sender # 0 /\ ~Live(sender))
            => /\ threads' = DropSender(threads, sender)
               /\ state' = "Running"
               /\ pre_pause_state' = "None"
               /\ time_left' = duration
               /\ end_time' = now' + duration + RestartLeadIn
               /\ sender' = 0
               /\ duration' = duration
               /\ running' = running]_vars

\* C17 witness: the first thread was told to stop by a restart and has exited;
\* the second had exited by itself (its set-up failed) when the restart of the
\* last step sent to it: no stop is recorded for it and only its Sender is gone
C17_Witness ==
    /\ Len(threads) = 2
    /\ ~Live(1) /\ ~threads[1].tx
    /\ did_restart
    /\ ~Live(2) /\ ~threads[2].tx /\ ~threads[2].stop
    /\ sender = 0
    /\ state = "Running"

\* C18: in every reachable state the sender is present only if the state is
\* Triggered (in Running, Paused and Restart it is None); start_sound is
\* called only when the sender is None, and a sender that is present is
\* never replaced by another one, only cleared
C18_SenderOnlyWhileTriggered ==
    /\ [](state # "Triggered" => sender = 0)
    /\ [][/\ (sound_result' # "none") => (sender = 0)
          /\ (sender # 0 /\ sender' # sender) => (sender' = 0)]_vars

\* C18 witness: after a restart cleared the first sender, the timer has
\* triggered again and start_sound has stored the sender of a second thread
C18_Witness ==
    /\ state = "Triggered"
    /\ sender = 2
    /\ starts = 2
    /\ sound_result = "ok"
    /\ ~threads[1].tx

\* C19: pre_pause_state is None or Some(Running) in every reachable state;
\* Paused is entered only from Running, Paused is left only to Running, and
\* Triggered is left only by a step that runs restart
C19_PausedOnlyFromRunning ==
    /\ [](pre_pause_state \in {"None", "Running"})
    /\ [][/\ (state # "Paused" /\ state' = "Paused") => (state = "Running")
          /\ (state = "Paused" /\ state' # "Paused") => (state' = "Running")
          /\ (state = "Triggered" /\ state' # "Triggered") => did_restart']_vars

\* C19 witness: the timer has triggered, was restarted, then paused, and the
\* Space key of the last step resumed it to Running
C19_Witness ==
    /\ KeyIn(event, {" "})
    /\ resumed
    /\ state = "Running"
    /\ pre_pause_state = "None"
    /\ starts >= 1

\* C20: with duration > 0 (the clock of the model never goes back), in every
\* reachable state time_left > 0 when the state is Running, Paused or
\* Restart and time_left <= 0 when it is Triggered; and the time string
\* drawn last has the prefix "-" exactly when time_left <= 0
C20_SignOfTimeLeftFollowsState ==
    duration > 0 =>
        /\ state \in {"Running", "Paused", "Restart"} => time_left > 0
        /\ state = "Triggered" => time_left <= 0
        /\ (frame[1] = "-") <=> (time_left <= 0)

\* C20 witness: a timer of positive duration, never restarted nor paused
\* across a tick, has triggered and shows an overtime of one second behind "-"
C20_Witness ==
    /\ duration > 0
    /\ state = "Triggered"
    /\ end_time = duration
    /\ time_left <= 0 - 1000
    /\ frame = <<"-", "0", "0", ":", "0", "0", ":", "0", "1">>

====
